---------------------------- MODULE Spec2Model ----------------------------
(***************************************************************************)
(* State-machine model of src/chat-interface.tsx: the minimal              *)
(* ChatInterface and the EnhancedChatInterface React components.           *)
(*                                                                         *)
(* Every handler runs with the values of the render it was created in:     *)
(* an async handler keeps reading that render's currentConversation and    *)
(* serverSettings after its await.  A completion request in flight         *)
(* therefore carries the closure it will resume with.                      *)
(*                                                                         *)
(* Strings whose length or characters the code inspects (input, titles,    *)
(* message contents) are sequences of one-character strings.               *)
(***************************************************************************)
EXTENDS Integers, Sequences, FiniteSets, TLC

VARIABLES
    variant,              \* which component is mounted: "minimal" | "enhanced"
    crashed,              \* a render threw: the component tree is unmounted
    currentConversation,  \* useState<Conversation>          (enhanced)
    conversations,        \* useState<Conversation[]>, as a JavaScript value
    input,                \* useState("")                    (both)
    isLoading,            \* useState(false)                 (both)
    models,               \* useState<string[]>([])          (both)
    serverSettings,       \* active {host, port}             (enhanced)
    tempSettings,         \* edited {host, port}             (enhanced)
    isSettingsOpen,       \* settings modal shown            (enhanced)
    localStorage,         \* keys "conversations" and "serverSettings"
    inflight,             \* completion requests awaiting their response
    modelFetches,         \* URLs of model-list requests awaiting their response
    now,                  \* the clock read by Date.now()
    last,                 \* the handler that ran last, with its inputs
    messages,             \* useState<Message[]>([])         (minimal)
    selectedModel,        \* useState("")                    (minimal)
    titled,               \* history: ids whose title derivation has run
    lastSave              \* history: "changed" once saveSettings has committed other
                          \* settings, "failed" once a model-list request has
                          \* failed after that, "none" before

vars ==
    <<variant, crashed, currentConversation, conversations, input, isLoading,
      models, serverSettings, tempSettings, isSettingsOpen, localStorage,
      inflight, modelFetches, now, last, messages, selectedModel, titled,
      lastSave>>

----------------------------------------------------------------------------
(* Bounds of the model *)

\* Date.now() readings available to a run
MaxClock == 5

\* conversations the list can hold
MaxConversations == 2

\* messages the minimal component's list can hold
MaxMessages == 4

----------------------------------------------------------------------------
(* Text *)

PlaceholderTitle ==
    <<"N", "e", "w", " ", "C", "o", "n", "v", "e", "r", "s", "a", "t", "i", "o", "n">>

ErrorText ==
    <<"S", "o", "r", "r", "y", ",", " ", "t", "h", "e", "r", "e", " ", "w", "a", "s", " ",
      "a", "n", " ", "e", "r", "r", "o", "r", " ", "p", "r", "o", "c", "e", "s", "s", "i",
      "n", "g", " ", "y", "o", "u", "r", " ", "r", "e", "q", "u", "e", "s", "t", ".">>

NoResponseText ==
    <<"N", "o", " ", "r", "e", "s", "p", "o", "n", "s", "e", " ", "f", "r", "o", "m", " ",
      "A", "I">>

Ellipsis ==
    <<".", ".", ".">>

TitleMax == 30

\* what the user can type: the placeholder text itself, a 31-character
\* message, and whitespace only; HiInput is what an earlier session sent
HiInput ==
    <<"h", "i">>

LongInput ==
    <<"P", "l", "e", "a", "s", "e", " ", "s", "u", "m", "m", "a", "r", "i", "s", "e", " ",
      "t", "h", "i", "s", " ", "l", "o", "n", "g", " ", "t", "e", "x", "t">>

BlankInput ==
    <<" ", " ">>

EmptyText ==
    <<>>

Inputs ==
    {PlaceholderTitle, LongInput, BlankInput}

\* what the server can answer in choices[0].message.content
ReplyText ==
    <<"o", "k">>

Whitespace ==
    {" ", "\t", "\n"}

RECURSIVE TrimStart(_)
TrimStart(s) ==
    IF s # <<>> /\ Head(s) \in Whitespace THEN TrimStart(Tail(s)) ELSE s

RECURSIVE TrimEnd(_)
TrimEnd(s) ==
    IF s # <<>> /\ s[Len(s)] \in Whitespace
    THEN TrimEnd(SubSeq(s, 1, Len(s) - 1))
    ELSE s

\* String.prototype.trim
Trim(s) ==
    TrimEnd(TrimStart(s))

\* a JavaScript string is falsy exactly when it is empty
Falsy(s) ==
    s = EmptyText

\* String.prototype.substring(0, n)
Substring0(s, n) ==
    SubSeq(s, 1, IF Len(s) < n THEN Len(s) ELSE n)

----------------------------------------------------------------------------
(* Data *)

\* the tokens Math.random().toString(36).substring(2, 15) yields in the model
Ids ==
    {"k3f9x7q2abc", "rs1b2w9i8so"}

Hosts ==
    {"localhost", "example.com"}

Ports ==
    {"1234", "8080"}

Settings ==
    [host : Hosts, port : Ports]

DefaultSettings ==
    [host |-> "localhost", port |-> "1234"]

UserMessage(content) ==
    [role |-> "user", content |-> content]

AssistantMessage(content) ==
    [role |-> "assistant", content |-> content]

\* `http://${host}:${port}${path}`
Url(settings, path) ==
    [host |-> settings.host, port |-> settings.port, path |-> path]

CompletionsPath ==
    "/v1/chat/completions"

ModelsPath ==
    "/v1/models"

\* the model ids each server lists
ModelsAt(url) ==
    IF url.host = "localhost" THEN <<"m1">> ELSE <<"m2">>

\* JavaScript values a conversations state can hold
JsArray(items) ==
    [t |-> "array", items |-> items]

JsNull ==
    [t |-> "null", items |-> <<>>]

JsObject ==
    [t |-> "object", items |-> <<>>]

\* Math.random().toString(36).substring(2, 15): any token, with no check
\* against the ids already in use
generateId ==
    Ids

NewConversation(id, model, t) ==
    [id |-> id, title |-> PlaceholderTitle, messages |-> <<>>, model |-> model,
     timestamp |-> t]

\* prev.map((c) => (c.id === id ? conv : c))
MapById(list, id, conv) ==
    [i \in DOMAIN list |-> IF list[i].id = id THEN conv ELSE list[i]]

\* a find that takes the first entry whatever its id
FindIndexOfAny(list, id) ==
    IF list # <<>> THEN 1 ELSE 0

\* conversations.find((c) => c.id === id): the index of the first match, 0 if none
FindIndex(list, id) ==
    IF \E i \in DOMAIN list : list[i].id = id
    THEN CHOOSE i \in DOMAIN list :
            /\ list[i].id = id
            /\ \A j \in DOMAIN list : list[j].id = id => i <= j
    ELSE 0

\* userMessage.length > 30 ? userMessage.substring(0, 30) + "..." : userMessage
DeriveTitle(userMessage) ==
    IF Len(userMessage) > TitleMax
    THEN Substring0(userMessage, TitleMax) \o Ellipsis
    ELSE userMessage


----------------------------------------------------------------------------
(* localStorage *)

\* an item of the store: missing (getItem returns null), or a text that is
\* empty, not JSON, or the JSON text of a value
Absent ==
    [present |-> FALSE, syntax |-> "empty", value |-> JsNull]

EmptyItem ==
    [present |-> TRUE, syntax |-> "empty", value |-> JsNull]

InvalidItem ==
    [present |-> TRUE, syntax |-> "invalid", value |-> JsNull]

\* JSON.stringify, on the values the component stores: arrays of
\* conversations (strings, numbers, arrays and plain objects only), null,
\* and {host, port} objects of strings all have a JSON text
JSONstringify(v) ==
    [present |-> TRUE, syntax |-> "json", value |-> v]

\* `if (saved)`: getItem's result is truthy when it is a non-empty string
Truthy(item) ==
    item.present /\ item.syntax # "empty"

\* JSON.parse throws on a text that is not JSON
ParseThrows(item) ==
    item.syntax # "json"

JSONparse(item) ==
    item.value

\* conversations a previous session can have stored
ConvA ==
    [id |-> "k3f9x7q2abc", title |-> HiInput,
     messages |-> <<UserMessage(HiInput), AssistantMessage(ReplyText)>>,
     model |-> "m2", timestamp |-> 0]

ConvB ==
    [id |-> "rs1b2w9i8so", title |-> PlaceholderTitle, messages |-> <<>>, model |-> "m1",
     timestamp |-> 0]

StoredConversations ==
    {Absent, EmptyItem, InvalidItem, JSONstringify(JsNull), JSONstringify(JsObject),
     JSONstringify(JsArray(<<>>)), JSONstringify(JsArray(<<ConvB, ConvA>>))}

StoredSettings ==
    {Absent}

InitialStores ==
    [conversations : StoredConversations, serverSettings : StoredSettings]

----------------------------------------------------------------------------
(* Mounting EnhancedChatInterface *)

\* useState initial values, lines 223-253
InitialConversation(id, t) ==
    NewConversation(id, "", t)

\* the restore effect's read of "conversations": the value handed to
\* setConversations, if any
RestoredConversations(store) ==
    LET item == store.conversations
    IN  IF Truthy(item) /\ ~ParseThrows(item)
        THEN JSONparse(item)
        ELSE JsArray(<<>>)

\* setCurrentConversation(parsed[0]) runs only when parsed.length > 0; on null
\* the read of .length throws into the catch, on an object it is undefined
RestoredCurrent(store, initial) ==
    LET item == store.conversations
    IN  IF /\ Truthy(item)
           /\ ~ParseThrows(item)
           /\ JSONparse(item).t = "array"
           /\ Len(JSONparse(item).items) > 0
        THEN JSONparse(item).items[1]
        ELSE initial

SettingsRestored(store) ==
    Truthy(store.serverSettings) /\ ~ParseThrows(store.serverSettings)

\* a restore that leaves the useState defaults in place
RestoredSettingsIgnoringStore(store) ==
    DefaultSettings

RestoredSettings(store) ==
    IF SettingsRestored(store) THEN JSONparse(store.serverSettings) ELSE DefaultSettings

\* conversations.map(...) in the render throws unless conversations is an array
RenderThrows(convs) ==
    convs.t # "array"

\* The state once the mount has settled: the first render with the useState
\* values, its effects in order (restore; persist "[]" and the default
\* settings; fetchModels with the default settings), then the render of the
\* restored state and the effects whose dependencies changed.  When that
\* second render throws, nothing of it is committed and only the first
\* render's writes remain.
MountEnhanced(store, id, t) ==
    LET convs    == RestoredConversations(store)
        current  == RestoredCurrent(store, InitialConversation(id, t))
        settings == RestoredSettings(store)
        throws   == RenderThrows(convs)
    IN  [crashed             |-> throws,
         currentConversation |-> current,
         conversations       |-> convs,
         serverSettings      |-> settings,
         tempSettings        |-> settings,
         localStorage        |->
             IF throws
             THEN [conversations  |-> JSONstringify(JsArray(<<>>)),
                   serverSettings |-> JSONstringify(DefaultSettings)]
             ELSE [conversations  |-> JSONstringify(convs),
                   serverSettings |-> JSONstringify(settings)],
         modelFetches        |->
             {Url(DefaultSettings, ModelsPath)} \cup
             (IF SettingsRestored(store) /\ ~throws
              THEN {Url(settings, ModelsPath)}
              ELSE {})]

\* the enhanced component's state while the minimal one is mounted
Unmounted ==
    [crashed             |-> FALSE,
     currentConversation |-> NewConversation("k3f9x7q2abc", "", 0),
     conversations       |-> JsArray(<<>>),
     serverSettings      |-> DefaultSettings,
     tempSettings        |-> DefaultSettings,
     localStorage        |-> [conversations |-> Absent, serverSettings |-> Absent],
     modelFetches        |-> {Url(DefaultSettings, ModelsPath)}]

Mounted(v, store, id, t) ==
    IF v = "enhanced" THEN MountEnhanced(store, id, t) ELSE Unmounted

Variants ==
    {"minimal", "enhanced"}

\* no other settings were saved since the component mounted
NoSave ==
    "none"

\* the state right after component v has mounted from this store
StartsFrom(v, store, id) ==
    LET m == Mounted(v, store, id, 1)
    IN  /\ variant = v
        /\ crashed = m.crashed
        /\ currentConversation = m.currentConversation
        /\ conversations = m.conversations
        /\ serverSettings = m.serverSettings
        /\ tempSettings = m.tempSettings
        /\ localStorage = m.localStorage
        /\ modelFetches = m.modelFetches
        /\ input = EmptyText
        /\ isLoading = FALSE
        /\ models = <<>>
        /\ isSettingsOpen = FALSE
        /\ inflight = {}
        /\ now = 2
        /\ last = [op |-> "mount", arg |-> store]
        /\ messages = <<>>
        /\ selectedModel = ""
        /\ titled = {}
        /\ lastSave = NoSave

Init ==
    \E v \in Variants, id \in generateId :
    \E store \in IF v = "enhanced"
                 THEN InitialStores
                 ELSE {[conversations |-> Absent, serverSettings |-> Absent]} :
        StartsFrom(v, store, id)

\* a page reload: the page's requests die with it and the component mounts
\* again from what the store holds
Reload ==
    /\ now <= MaxClock
    /\ \E id \in generateId :
        LET m == Mounted(variant, localStorage, id, now)
        IN  /\ crashed' = m.crashed
            /\ currentConversation' = m.currentConversation
            /\ conversations' = m.conversations
            /\ serverSettings' = m.serverSettings
            /\ tempSettings' = m.tempSettings
            /\ localStorage' = IF variant = "enhanced" THEN m.localStorage ELSE localStorage
            /\ modelFetches' = m.modelFetches
    /\ input' = EmptyText
    /\ isLoading' = FALSE
    /\ models' = <<>>
    /\ isSettingsOpen' = FALSE
    /\ inflight' = {}
    /\ now' = now + 1
    /\ last' = [op |-> "mount", arg |-> localStorage]
    /\ messages' = <<>>
    /\ selectedModel' = ""
    /\ lastSave' = NoSave
    /\ UNCHANGED <<variant, titled>>

----------------------------------------------------------------------------
(* EnhancedChatInterface: handlers *)

Enhanced ==
    variant = "enhanced" /\ ~crashed

\* Date.now() can still be read by a user action, leaving one reading for
\* each response still to come
ClockLeft(reserved) ==
    now + Cardinality(inflight) + reserved <= MaxClock

\* the persist effects, lines 300-307: both keys hold the JSON text of the
\* state of the last render
Persisted(convs, settings) ==
    [conversations |-> JSONstringify(convs), serverSettings |-> JSONstringify(settings)]

\* a send form that stays enabled while a request is pending
InputEnabledWhileLoading ==
    currentConversation.model # ""

\* the <input> and the submit button are disabled while loading or without a
\* model, lines 717 and 722
InputEnabled ==
    ~isLoading /\ currentConversation.model # ""

\* onChange={(e) => setInput(e.target.value)}
SetInput(value) ==
    /\ Enhanced
    /\ InputEnabled
    /\ value # input
    /\ input' = value
    /\ last' = [op |-> "setInput", arg |-> value]
    /\ UNCHANGED <<lastSave, titled, variant, crashed, currentConversation, conversations, isLoading,
                   models, serverSettings, tempSettings, isSettingsOpen, localStorage,
                   inflight, modelFetches, now, messages, selectedModel>>

\* lines 316-330
startNewChat(id) ==
    /\ Enhanced
    /\ ClockLeft(0)
    /\ Len(conversations.items) < MaxConversations
    /\ LET newConversation == NewConversation(id, currentConversation.model, now)
           list == <<newConversation>> \o conversations.items
       IN  /\ currentConversation' = newConversation
           /\ conversations' = JsArray(list)
           /\ localStorage' = Persisted(JsArray(list), serverSettings)
    /\ input' = EmptyText
    /\ now' = now + 1
    /\ last' = [op |-> "startNewChat", arg |-> id]
    /\ UNCHANGED <<lastSave, titled, variant, crashed, isLoading, models, serverSettings, tempSettings,
                   isSettingsOpen, inflight, modelFetches, messages, selectedModel>>

\* lines 333-339
switchConversation(id) ==
    /\ Enhanced
    /\ LET i == FindIndex(conversations.items, id)
       IN  currentConversation' =
               IF i # 0 THEN conversations.items[i] ELSE currentConversation
    /\ last' = [op |-> "switchConversation", arg |-> id]
    /\ UNCHANGED <<lastSave, titled, variant, crashed, conversations, input, isLoading, models,
                   serverSettings, tempSettings, isSettingsOpen, localStorage, inflight,
                   modelFetches, now, messages, selectedModel>>

\* the <select> offers "" and the fetched models, lines 634-645
ModelOptions ==
    {""} \cup {models[i] : i \in DOMAIN models}

\* lines 476-486
handleModelChange(model) ==
    /\ Enhanced
    /\ model # currentConversation.model
    /\ LET updatedConversation == [currentConversation EXCEPT !.model = model]
           list == MapById(conversations.items, currentConversation.id,
                           updatedConversation)
       IN  /\ currentConversation' = updatedConversation
           /\ conversations' = JsArray(list)
           /\ localStorage' = Persisted(JsArray(list), serverSettings)
    /\ last' = [op |-> "handleModelChange", arg |-> model]
    /\ UNCHANGED <<lastSave, titled, variant, crashed, input, isLoading, models, serverSettings,
                   tempSettings, isSettingsOpen, inflight, modelFetches, now, messages,
                   selectedModel>>

\* the request of lines 415-424 together with what the handler resumes with
\* after its await: the currentConversation of the render that created it
\* and the newMessages it built
CompletionRequest(closure, userMessage, newMessages, settings) ==
    [currentConversation |-> closure,
     userMessage |-> userMessage,
     newMessages |-> newMessages,
     url  |-> Url(settings, CompletionsPath),
     body |-> [model |-> closure.model, messages |-> <<UserMessage(userMessage)>>]]

\* lines 390-424: up to the await
handleSendMessage ==
    /\ Enhanced
    /\ InputEnabled
    /\ IF Falsy(Trim(input)) \/ currentConversation.model = ""
       THEN /\ last' = [op |-> "handleSendMessage", arg |-> "ignored"]
            /\ UNCHANGED <<currentConversation, conversations, input, isLoading,
                           localStorage, inflight, now>>
       ELSE /\ ClockLeft(1)
            /\ LET userMessage == input
                   newMessages == Append(currentConversation.messages,
                                         UserMessage(userMessage))
                   updatedConversation ==
                       [currentConversation EXCEPT !.messages = newMessages,
                                                   !.timestamp = now]
                   list == MapById(conversations.items, currentConversation.id,
                                   updatedConversation)
               IN  /\ currentConversation' = updatedConversation
                   /\ conversations' = JsArray(list)
                   /\ localStorage' = Persisted(JsArray(list), serverSettings)
                   /\ inflight' = inflight \cup
                          {CompletionRequest(currentConversation, userMessage,
                                             newMessages, serverSettings)}
            /\ input' = EmptyText
            /\ isLoading' = TRUE
            /\ now' = now + 1
            /\ last' = [op |-> "handleSendMessage", arg |-> "sent"]
    /\ UNCHANGED <<lastSave, titled, variant, crashed, models, serverSettings, tempSettings,
                   isSettingsOpen, modelFetches, messages, selectedModel>>

\* data?.choices?.[0]?.message?.content || "No response from AI"; a missing
\* content is the empty text here, falsy like undefined
AiResponse(content) ==
    IF Falsy(content) THEN NoResponseText ELSE content

ResponseContents ==
    {ReplyText, EmptyText}

\* the condition of line 343, read in the closure of the render that
\* created the handler
TitleTriggered(closure, msgs) ==
    Len(msgs) = 2 /\ closure.title = PlaceholderTitle

\* lines 342-358, applied to the pending state updates `st`: the updated
\* conversation is built from the closure's currentConversation
updateConversationTitle(closure, msgs, st) ==
    IF TitleTriggered(closure, msgs)
    THEN LET updatedConversation ==
                 [closure EXCEPT !.title = DeriveTitle(msgs[1].content)]
         IN  [current |-> updatedConversation,
              list    |-> MapById(st.list, closure.id, updatedConversation)]
    ELSE st

\* lines 429-441: the reply appended to newMessages, on the closure's
\* currentConversation
WithReply(closure, newMessages, content, t) ==
    [closure EXCEPT !.messages = Append(newMessages, AssistantMessage(content)),
                    !.timestamp = t]

\* line 429
FinalMessages(req, content) ==
    Append(req.newMessages, AssistantMessage(AiResponse(content)))

\* lines 426-444: the state updates queued after a response
AfterResponse(req, content, list, t) ==
    LET finalConversation ==
            WithReply(req.currentConversation, req.newMessages, AiResponse(content), t)
    IN  updateConversationTitle(
            req.currentConversation,
            FinalMessages(req, content),
            [current |-> finalConversation,
             list    |-> MapById(list, req.currentConversation.id, finalConversation)])

\* a catch that appends the error to the closure's messages, dropping the
\* user message
AfterFailureOnStaleMessages(req, list, t) ==
    LET errorConversation ==
            WithReply(req.currentConversation, req.currentConversation.messages,
                      ErrorText, t)
    IN  [current |-> errorConversation,
         list    |-> MapById(list, req.currentConversation.id, errorConversation)]

\* lines 445-463: the state updates queued in the catch
AfterFailure(req, list, t) ==
    LET errorConversation ==
            WithReply(req.currentConversation, req.newMessages, ErrorText, t)
    IN  [current |-> errorConversation,
         list    |-> MapById(list, req.currentConversation.id, errorConversation)]

\* a continuation that drops the result when another conversation has become
\* the active one
CompletionKeepingSelection(req, outcome, retitled, st) ==
    /\ currentConversation' =
           IF currentConversation.id = req.currentConversation.id
           THEN st.current
           ELSE currentConversation
    /\ conversations' = JsArray(st.list)
    /\ localStorage' = Persisted(JsArray(st.list), serverSettings)
    /\ isLoading' = FALSE
    /\ inflight' = inflight \ {req}
    /\ now' = now + 1
    /\ last' = [op |-> "completion",
                arg |-> [request  |-> req,
                         outcome  |-> outcome,
                         before   |-> currentConversation,
                         retitled |-> retitled]]
    /\ titled' = IF retitled THEN titled \cup {req.currentConversation.id} ELSE titled
    /\ UNCHANGED <<lastSave, variant, crashed, input, models, serverSettings,
                   tempSettings, isSettingsOpen, modelFetches, messages, selectedModel>>

\* the state after the handler's continuation, including the finally of
\* lines 464-466
Completion(req, outcome, retitled, st) ==
    /\ currentConversation' = st.current
    /\ conversations' = JsArray(st.list)
    /\ localStorage' = Persisted(JsArray(st.list), serverSettings)
    /\ isLoading' = FALSE
    /\ inflight' = inflight \ {req}
    /\ now' = now + 1
    /\ last' = [op |-> "completion",
                arg |-> [request  |-> req,
                         outcome  |-> outcome,
                         before   |-> currentConversation,
                         retitled |-> retitled]]
    /\ titled' = IF retitled THEN titled \cup {req.currentConversation.id} ELSE titled
    /\ UNCHANGED <<lastSave, variant, crashed, input, models, serverSettings,
                   tempSettings, isSettingsOpen, modelFetches, messages, selectedModel>>

\* the fetch resolves and its body parses
completionResolves(req, content) ==
    /\ Enhanced
    /\ req \in inflight
    /\ Completion(req, "resolved",
                  TitleTriggered(req.currentConversation, FinalMessages(req, content)),
                  AfterResponse(req, content, conversations.items, now))

\* the fetch rejects, or response.json() throws
completionRejects(req) ==
    /\ Enhanced
    /\ req \in inflight
    /\ Completion(req, "rejected", FALSE,
                  AfterFailure(req, conversations.items, now))

----------------------------------------------------------------------------
(* EnhancedChatInterface: settings and the model list *)

\* lines 574 and 605
openSettings ==
    /\ Enhanced
    /\ ~isSettingsOpen
    /\ isSettingsOpen' = TRUE
    /\ last' = [op |-> "openSettings", arg |-> tempSettings]
    /\ UNCHANGED <<lastSave, titled, variant, crashed, currentConversation, conversations, input,
                   isLoading, models, serverSettings, tempSettings, localStorage,
                   inflight, modelFetches, now, messages, selectedModel>>

\* Cancel and the modal's X, lines 739 and 770: the edits stay in tempSettings
closeSettings ==
    /\ Enhanced
    /\ isSettingsOpen
    /\ isSettingsOpen' = FALSE
    /\ last' = [op |-> "closeSettings", arg |-> tempSettings]
    /\ UNCHANGED <<lastSave, titled, variant, crashed, currentConversation, conversations, input,
                   isLoading, models, serverSettings, tempSettings, localStorage,
                   inflight, modelFetches, now, messages, selectedModel>>

\* lines 752 and 762
setTempSettings(settings) ==
    /\ Enhanced
    /\ isSettingsOpen
    /\ settings # tempSettings
    /\ settings.host = tempSettings.host \/ settings.port = tempSettings.port
    /\ tempSettings' = settings
    /\ last' = [op |-> "setTempSettings", arg |-> settings]
    /\ UNCHANGED <<lastSave, titled, variant, crashed, currentConversation, conversations, input,
                   isLoading, models, serverSettings, isSettingsOpen, localStorage,
                   inflight, modelFetches, now, messages, selectedModel>>

\* fetchModels of the render that created the handler, lines 369-372: the
\* URL is built from that render's serverSettings
fetchModels(settings) ==
    Url(settings, ModelsPath)

\* lines 361-366, with the effects of the render that follows: the persist
\* effect of lines 305-307 and the fetch effect of lines 381-383
saveSettings ==
    /\ Enhanced
    /\ isSettingsOpen
    /\ serverSettings' = tempSettings
    /\ isSettingsOpen' = FALSE
    /\ modelFetches' = modelFetches \cup
           {fetchModels(serverSettings), fetchModels(tempSettings)}
    /\ localStorage' = Persisted(conversations, tempSettings)
    /\ last' = [op |-> "saveSettings", arg |-> tempSettings]
    /\ lastSave' = IF tempSettings # serverSettings THEN "changed" ELSE lastSave
    /\ UNCHANGED <<titled, variant, crashed, currentConversation, conversations, input,
                   isLoading, models, tempSettings, inflight, now, messages,
                   selectedModel>>

\* lines 372-376 (and 29-33): the model list of the answering server
modelsResolve(url) ==
    /\ ~crashed
    /\ url \in modelFetches
    /\ models' = ModelsAt(url)
    /\ modelFetches' = modelFetches \ {url}
    /\ last' = [op |-> "modelsResolve", arg |-> url]
    /\ UNCHANGED <<lastSave, titled, variant, crashed, currentConversation, conversations, input,
                   isLoading, serverSettings, tempSettings, isSettingsOpen,
                   localStorage, inflight, now, messages, selectedModel>>

\* line 377 (and 34): the failure is logged, the list stays
modelsReject(url) ==
    /\ ~crashed
    /\ url \in modelFetches
    /\ modelFetches' = modelFetches \ {url}
    /\ last' = [op |-> "modelsReject", arg |-> url]
    /\ lastSave' = IF lastSave = "changed" THEN "failed" ELSE lastSave
    /\ UNCHANGED <<titled, variant, crashed, currentConversation, conversations, input,
                   isLoading, models, serverSettings, tempSettings, isSettingsOpen,
                   localStorage, inflight, now, messages, selectedModel>>

----------------------------------------------------------------------------
(* ChatInterface, the minimal component *)

Minimal ==
    variant = "minimal"

\* lines 178 and 181
MinInputEnabled ==
    ~isLoading /\ selectedModel # ""

\* line 175
minSetInput(value) ==
    /\ Minimal
    /\ MinInputEnabled
    /\ value # input
    /\ input' = value
    /\ last' = [op |-> "setInput", arg |-> value]
    /\ UNCHANGED <<lastSave, titled, variant, crashed, currentConversation, conversations, isLoading,
                   models, serverSettings, tempSettings, isSettingsOpen, localStorage,
                   inflight, modelFetches, now, messages, selectedModel>>

\* line 106: the <Select> offers the fetched models
setSelectedModel(model) ==
    /\ Minimal
    /\ model # ""
    /\ model # selectedModel
    /\ selectedModel' = model
    /\ last' = [op |-> "setSelectedModel", arg |-> model]
    /\ UNCHANGED <<lastSave, titled, variant, crashed, currentConversation, conversations, input,
                   isLoading, models, serverSettings, tempSettings, isSettingsOpen,
                   localStorage, inflight, modelFetches, now, messages>>

MinCompletionRequest(userMessage, model) ==
    [userMessage |-> userMessage,
     url  |-> Url(DefaultSettings, CompletionsPath),
     body |-> [model |-> model, messages |-> <<UserMessage(userMessage)>>]]

\* lines 46-66: up to the await
minHandleSendMessage ==
    /\ Minimal
    /\ MinInputEnabled
    /\ IF Falsy(Trim(input)) \/ selectedModel = ""
       THEN /\ last' = [op |-> "handleSendMessage", arg |-> "ignored"]
            /\ UNCHANGED <<messages, input, isLoading, inflight>>
       ELSE /\ Len(messages) + 2 <= MaxMessages
            /\ messages' = Append(messages, UserMessage(input))
            /\ input' = EmptyText
            /\ isLoading' = TRUE
            /\ inflight' = inflight \cup {MinCompletionRequest(input, selectedModel)}
            /\ last' = [op |-> "handleSendMessage", arg |-> "sent"]
    /\ UNCHANGED <<lastSave, titled, variant, crashed, currentConversation, conversations, models,
                   serverSettings, tempSettings, isSettingsOpen, localStorage,
                   modelFetches, now, selectedModel>>

\* a continuation without the finally of lines 81-83
MinCompletionWithoutFinally(req, outcome, content) ==
    /\ messages' = Append(messages, AssistantMessage(content))
    /\ isLoading' = isLoading
    /\ inflight' = inflight \ {req}
    /\ last' = [op |-> "completion",
                arg |-> [request  |-> req,
                         outcome  |-> outcome,
                         before   |-> messages,
                         retitled |-> FALSE]]
    /\ UNCHANGED <<lastSave, titled, variant, crashed, currentConversation, conversations,
                   input, models, serverSettings, tempSettings, isSettingsOpen,
                   localStorage, modelFetches, now, selectedModel>>

\* setMessages((prev) => [...prev, reply]) and the finally, lines 71-83
MinCompletion(req, outcome, content) ==
    /\ messages' = Append(messages, AssistantMessage(content))
    /\ isLoading' = FALSE
    /\ inflight' = inflight \ {req}
    /\ last' = [op |-> "completion",
                arg |-> [request  |-> req,
                         outcome  |-> outcome,
                         before   |-> messages,
                         retitled |-> FALSE]]
    /\ UNCHANGED <<lastSave, titled, variant, crashed, currentConversation, conversations, input, models,
                   serverSettings, tempSettings, isSettingsOpen, localStorage,
                   modelFetches, now, selectedModel>>

\* lines 68-71
minCompletionResolves(req, content) ==
    /\ Minimal
    /\ req \in inflight
    /\ MinCompletion(req, "resolved", AiResponse(content))

\* lines 72-80
minCompletionRejects(req) ==
    /\ Minimal
    /\ req \in inflight
    /\ MinCompletion(req, "rejected", ErrorText)

----------------------------------------------------------------------------
(* The specification *)

\* the conversation handlers of EnhancedChatInterface and the handlers of
\* ChatInterface, with the server settings as restored at startup
Next ==
    \/ Reload
    \/ \E value \in Inputs \cup {EmptyText} : SetInput(value)
    \/ \E id \in generateId : startNewChat(id)
    \/ \E id \in Ids : switchConversation(id)
    \/ \E model \in ModelOptions : handleModelChange(model)
    \/ handleSendMessage
    \/ \E req \in inflight, content \in ResponseContents : completionResolves(req, content)
    \/ \E req \in inflight : completionRejects(req)
    \/ \E url \in modelFetches : modelsResolve(url)
    \/ \E url \in modelFetches : modelsReject(url)
    \/ \E value \in Inputs \cup {EmptyText} : minSetInput(value)
    \/ \E model \in ModelOptions : setSelectedModel(model)
    \/ minHandleSendMessage
    \/ \E req \in inflight, content \in ResponseContents :
           minCompletionResolves(req, content)
    \/ \E req \in inflight : minCompletionRejects(req)

Spec ==
    Init /\ [][Next]_vars

\* the network answers: a pending fetch resolves or rejects
Responses ==
    \E req \in inflight :
        \/ \E content \in ResponseContents : completionResolves(req, content)
        \/ completionRejects(req)
        \/ \E content \in ResponseContents : minCompletionResolves(req, content)
        \/ minCompletionRejects(req)

\* the handlers of Spec, with every pending fetch eventually settled by the
\* network
SpecLive ==
    Init /\ [][Next]_vars /\ WF_vars(Responses)

\* settings a previous session can have stored
StoredSettingsLists ==
    {Absent, InvalidItem, JSONstringify([host |-> "example.com", port |-> "8080"])}

InitSettings ==
    \E id \in generateId :
    \E store \in [conversations  : {JSONstringify(JsArray(<<ConvB, ConvA>>))},
                  serverSettings : StoredSettingsLists] :
        StartsFrom("enhanced", store, id)

\* the settings handlers of EnhancedChatInterface, with the page reload and
\* the handlers that issue requests; a completion request stays in flight
\* until the page is reloaded
NextSettings ==
    \/ Reload
    \/ \E value \in {LongInput, EmptyText} : SetInput(value)
    \/ handleSendMessage
    \/ openSettings
    \/ closeSettings
    \/ \E settings \in Settings : setTempSettings(settings)
    \/ saveSettings
    \/ \E url \in modelFetches : modelsResolve(url)
    \/ \E url \in modelFetches : modelsReject(url)

SpecSettings ==
    InitSettings /\ [][NextSettings]_vars

----------------------------------------------------------------------------
(* Properties *)

IsPrefix(a, b) ==
    Len(a) <= Len(b) /\ SubSeq(b, 1, Len(a)) = a

\* the last step applied the response (or failure) of a completion request
Completed(outcome) ==
    last.op = "completion" /\ last.arg.outcome = outcome

\* when the response arrived, the active conversation was still as
\* handleSendMessage had left it: nothing else acted in between
Undisturbed ==
    LET req == last.arg.request
    IN  [last.arg.before EXCEPT !.timestamp = 0] =
        [req.currentConversation EXCEPT !.messages = req.newMessages, !.timestamp = 0]

\* msgs is pre, then the user message, then one assistant message
GrownByExchange(msgs, pre, userMessage) ==
    /\ Len(msgs) = Len(pre) + 2
    /\ IsPrefix(pre, msgs)
    /\ msgs[Len(pre) + 1] = UserMessage(userMessage)
    /\ msgs[Len(pre) + 2].role = "assistant"

\* C1: after an accepted send whose request succeeds, with nothing else in
\* between, the active conversation's messages are the pre-send messages
\* followed by the user message and one assistant message, and its
\* timestamp is the one read while the response was applied; on every
\* exchange, the first included.
SuccessfulSendAppendsExchange ==
    (variant = "enhanced" /\ Completed("resolved") /\ Undisturbed) =>
        LET req == last.arg.request
        IN  /\ GrownByExchange(currentConversation.messages,
                               req.currentConversation.messages, req.userMessage)
            /\ currentConversation.timestamp = now - 1
            /\ currentConversation.timestamp # req.currentConversation.timestamp

\* the messages of the list entries with this id, and of the active slot
\* when it holds this id, are extended or kept by the step
AppendOnlyFor(id) ==
    /\ (currentConversation.id = id /\ currentConversation'.id = id) =>
           IsPrefix(currentConversation.messages, currentConversation'.messages)
    /\ \A i \in DOMAIN conversations.items :
           conversations.items[i].id = id =>
               \E j \in DOMAIN conversations'.items :
                   /\ conversations'.items[j].id = id
                   /\ IsPrefix(conversations.items[i].messages,
                               conversations'.items[j].messages)

\* C2: messages are append-only: every step of the enhanced component other
\* than a page reload leaves the message sequence of each conversation id,
\* in the active slot and in the list, unchanged or extended at the end.
MessagesAppendOnly ==
    [][(variant = "enhanced" /\ ~crashed /\ last'.op # "mount") =>
           \A id \in Ids : AppendOnlyFor(id)]_vars

\* C3: in every state of the enhanced component, the conversation list
\* holds an entry with the active conversation's id.
ActiveConversationListed ==
    (variant = "enhanced" /\ ~crashed) =>
        \E i \in DOMAIN conversations.items :
            conversations.items[i].id = currentConversation.id

\* C4: after an accepted send whose request fails, with nothing else in
\* between, the active messages are the pre-send messages, the user
\* message and one assistant message with the fixed error text, and the
\* component is still mounted; in both components.
FailedSendAppendsError ==
    Completed("rejected") =>
        LET req == last.arg.request
        IN  /\ ~crashed
            /\ ~isLoading
            /\ variant = "enhanced" =>
                   (Undisturbed =>
                        currentConversation.messages =
                            req.currentConversation.messages \o
                            <<UserMessage(req.userMessage), AssistantMessage(ErrorText)>>)
            /\ variant = "minimal" =>
                   /\ last.arg.before # <<>>
                   /\ last.arg.before[Len(last.arg.before)] = UserMessage(req.userMessage)
                   /\ messages = last.arg.before \o <<AssistantMessage(ErrorText)>>

\* a failure on the first exchange of a conversation that still carries
\* the placeholder title
FailedFirstExchange ==
    /\ variant = "enhanced"
    /\ Completed("rejected")
    /\ Undisturbed
    /\ last.arg.request.currentConversation.messages = <<>>
    /\ last.arg.request.currentConversation.title = PlaceholderTitle
    /\ Len(currentConversation.messages) = 2

\* C5: the title derivation runs only where the handler finds the
\* placeholder title and exactly two messages, and it never runs a second
\* time for the same conversation.
TitleDerivedOnce ==
    [][(last'.op = "completion" /\ last'.arg.retitled) =>
           LET req == last'.arg.request
           IN  /\ req.currentConversation.title = PlaceholderTitle
               /\ Len(req.newMessages) + 1 = 2
               /\ req.currentConversation.id \notin titled]_vars

\* all ids of the conversation list differ
DistinctIds(list) ==
    \A i, j \in DOMAIN list : list[i].id = list[j].id => i = j

\* C6: every new chat becomes the active conversation and goes to the front
\* of the list, ahead of the conversations created before it, and all ids
\* of the list are pairwise distinct.
NewChatsFrontedWithDistinctIds ==
    [][(last'.op = "startNewChat") =>
           /\ currentConversation' = NewConversation(last'.arg, currentConversation.model, now)
           /\ conversations'.items = <<currentConversation'>> \o conversations.items
           /\ DistinctIds(conversations'.items)]_vars

\* C7: switchConversation(id) leaves the list as it is; it leaves the active
\* conversation as it is when no entry has the id, and makes an entry with
\* the id the active conversation otherwise.
SwitchOnlySelects ==
    [][(last'.op = "switchConversation") =>
           LET id == last'.arg
               hits == {i \in DOMAIN conversations.items : conversations.items[i].id = id}
           IN  /\ conversations' = conversations
               /\ hits = {} => currentConversation' = currentConversation
               /\ hits # {} => \E i \in hits :
                                   currentConversation' = conversations.items[i]]_vars

\* a switch took the second entry of the list, and another one found no
\* entry for its id
SwitchedToSecondEntry ==
    /\ last.op = "switchConversation"
    /\ Len(conversations.items) = 2
    /\ currentConversation = conversations.items[2]
    /\ currentConversation # conversations.items[1]

\* C8: every list entry with the active conversation's id equals the active
\* conversation in title, messages, model and timestamp.
ListEntryMirrorsActive ==
    (variant = "enhanced" /\ ~crashed) =>
        \A i \in DOMAIN conversations.items :
            conversations.items[i].id = currentConversation.id =>
                conversations.items[i] = currentConversation

\* what the restore effect read from the "conversations" key
MountedFrom ==
    last.arg.conversations

\* the stored text is missing or is no JSON text of a conversation list
Malformed(item) ==
    ~item.present \/ item.syntax # "json" \/ item.value.t # "array"

\* C9: at startup a missing or malformed "conversations" value gives the
\* default state (an empty list and a fresh "New Conversation") without a
\* crash, and a stored non-empty list is restored as it is with its first
\* element active.
RestoreFallsBackOrRestores ==
    (variant = "enhanced" /\ last.op = "mount") =>
        /\ Malformed(MountedFrom) =>
               /\ ~crashed
               /\ conversations = JsArray(<<>>)
               /\ currentConversation.title = PlaceholderTitle
               /\ currentConversation.messages = <<>>
               /\ currentConversation.model = ""
        /\ (~Malformed(MountedFrom) /\ MountedFrom.value.items # <<>>) =>
               /\ ~crashed
               /\ conversations = MountedFrom.value
               /\ currentConversation = MountedFrom.value.items[1]

AtMostOneOutstanding ==
    [][/\ Cardinality(inflight') <= 1
       /\ inflight' \ inflight # {} =>
              /\ ~isLoading
              /\ inflight = {}
              /\ isLoading']_vars

\* a request issued from one conversation is still pending after a new chat
\* or a switch made another conversation active and its model was changed
PendingAcrossNewChatAndModelChange ==
    /\ variant = "enhanced"
    /\ last.op = "handleModelChange"
    /\ isLoading
    /\ \E req \in inflight : req.currentConversation.id # currentConversation.id

\* C12: handleModelChange(m) sets the model of the active conversation and
\* of the list entries with its id to m, and leaves their id, title,
\* messages and timestamp and every other list entry as they were.
ModelChangeOnlySetsModel ==
    [][(last'.op = "handleModelChange") =>
           LET m == last'.arg
           IN  /\ currentConversation' = [currentConversation EXCEPT !.model = m]
               /\ DOMAIN conversations'.items = DOMAIN conversations.items
               /\ \A i \in DOMAIN conversations.items :
                      conversations'.items[i] =
                          IF conversations.items[i].id = currentConversation.id
                          THEN [conversations.items[i] EXCEPT !.model = m]
                          ELSE conversations.items[i]]_vars

\* the message sequences a continuation can leave from its snapshot: the
\* snapshot's own messages, or its newMessages with one assistant message
SnapshotMessages(req) ==
    {req.currentConversation.messages} \cup
    {Append(req.newMessages, AssistantMessage(content)) :
         content \in {ReplyText, NoResponseText, ErrorText}}

ModelsFollowSavedSettings ==
    (variant = "enhanced" /\ ~crashed /\ lastSave = "changed" /\ modelFetches = {}) =>
        models = ModelsAt(Url(serverSettings, ModelsPath))

\* C15: the arrival of a response or failure changes no conversation's
\* model: a model selected for the active conversation while its request
\* was in flight is still the model of the active conversation and of its
\* list entry afterwards.
ResponseKeepsModel ==
    [][(variant = "enhanced" /\ last'.op = "completion") =>
           /\ currentConversation'.id = currentConversation.id =>
                  currentConversation'.model = currentConversation.model
           /\ \A i \in DOMAIN conversations.items :
                  /\ i \in DOMAIN conversations'.items
                  /\ conversations'.items[i].model = conversations.items[i].model]_vars

\* C16: in both components the loading flag is set exactly while a request
\* is outstanding, and, the network eventually answering, a flag that was
\* set is eventually cleared: on a reply, on a reply without content and on
\* a failure.
LoadingAlwaysClears ==
    /\ [](isLoading <=> inflight # {})
    /\ isLoading ~> ~isLoading

\* a reply without content was applied and the send control is enabled again
LoadingClearedAfterNoContent ==
    /\ variant = "enhanced"
    /\ Completed("resolved")
    /\ ~isLoading
    /\ inflight = {}
    /\ currentConversation.messages # <<>>
    /\ currentConversation.messages[Len(currentConversation.messages)] =
           AssistantMessage(NoResponseText)

============================================================================
